---- MODULE Spec2Model ----
(***************************************************************************)
(* A model of the rust-apns provider client: the Signer's token cache, the *)
(* Client's send pipeline (client/client.rs) and the request URI built by  *)
(* Client::build_request.                                                  *)
(*                                                                         *)
(* Four specifications share the variables:                                *)
(*   SpecSigner  concurrent sign() callers and the clock                   *)
(*   Spec        concurrent send() calls on one Client                     *)
(*   SpecUri     build_request over device tokens and endpoints            *)
(*   SpecNotify  CollapseId::new, then PushNotification::build_request     *)
(***************************************************************************)
EXTENDS Integers, Sequences, FiniteSets, TLC

VARIABLES
    \* ---- the Client (client.rs:33-37) ----
    endpoint,       \* Client.endpoint
    signer,         \* Client.signer: "none" (certificate mode) or "some" (token mode)
    \* ---- the Signer's shared cache and the clock ----
    now,            \* the wall clock, in seconds
    ticks,          \* how often the clock has advanced
    signature,      \* the cached signature: [valid, key, issued_at]
    lock,           \* the task inside the exclusive section, or NoTask
    sign_pc,        \* each sign() caller's position
    sign_seen,      \* what each caller's first check read
    sign_ret,       \* what each caller's sign() returns
    sign_calls,     \* how many sign() calls each caller has made
    signed,         \* every signing operation performed, in order
    \* ---- send() calls (client.rs:92-123) ----
    send_pc,        \* each send task's position
    send_req,       \* the Request the call was given
    issued,         \* the requests the call handed to the transport
    resp,           \* what the service answered
    outcome,        \* what send reported to its caller
    sends,          \* how many send calls each task has made
    earlier,        \* the outcome kind of the task's previous call
    \* ---- build_request alone (client.rs:125-142) ----
    uri_pc,
    uri_req,
    uri_res,
    \* ---- CollapseId::new and PushNotification::build_request ----
    nt_pc,          \* the conversion's position
    nt_in,          \* its inputs
    nt_cid,         \* what CollapseId::new returned
    nt_req          \* what build_request returned

clientVars == <<endpoint, signer>>
signerVars == <<now, ticks, signature, lock, sign_pc, sign_seen, sign_ret, sign_calls, signed>>
sendVars   == <<send_pc, send_req, issued, resp, outcome, sends, earlier>>
uriVars    == <<uri_pc, uri_req, uri_res>>
notifyVars == <<nt_pc, nt_in, nt_cid, nt_req>>
vars       == <<clientVars, signerVars, sendVars, uriVars, notifyVars>>

----------------------------------------------------------------------------
(* Bounds *)

MaxTicks == 3
MaxCalls == 2
MaxSends == 2
MaxTokenLen == 3
MaxCollapseChars == 66

SignTasks == {"s1", "s2"}
SendTasks == {"t1", "t2"}
NoTask == "nobody"

----------------------------------------------------------------------------
(* The Signer: Client::token's TTL, and sign() as a check-lock-recheck.    *)

\* client.rs:82  Duration::from_secs(60 * 55)
\* A TTL equal to the lifetime the service accepts.
signature_ttl_hour == 60 * 60

signature_ttl == 60 * 55

\* The clock advances by a second, by just under a TTL, or by a TTL.
TickSteps == {1, signature_ttl - 1, signature_ttl}

team_id == "TEAM"

\* A signature over the claim set {issuer: team_id, issued_at: t}.
Token(t) == [iss |-> team_id, iat |-> t]
NoToken == [iss |-> "", iat |-> 0]

\* A Signer that signs a token when it is constructed.
NewSignature_presigned == [valid |-> TRUE, key |-> Token(0), issued_at |-> 0]

\* No cached token at construction: the cache starts stale.
NewSignature == [valid |-> FALSE, key |-> NoToken, issued_at |-> 0]

\* Expiry tested with > in place of >=.
is_expired_gt(sig, t) == ~sig.valid \/ t - sig.issued_at > signature_ttl

\* The cached token's age is at least the TTL.
is_expired(sig, t) == ~sig.valid \/ t - sig.issued_at >= signature_ttl

NoSeen == [read |-> FALSE, stale |-> FALSE, key |-> NoToken]
NoRet  == [set |-> FALSE, key |-> NoToken, at |-> 0, renewed |-> FALSE]

Tick(d) ==
    /\ ticks < MaxTicks
    /\ now' = now + d
    /\ ticks' = ticks + 1
    /\ UNCHANGED <<signature, lock, sign_pc, sign_seen, sign_ret, sign_calls, signed>>
    /\ UNCHANGED <<clientVars, sendVars, uriVars, notifyVars>>

\* A caller enters sign().
SignCall(p) ==
    /\ sign_pc[p] = "idle"
    /\ sign_calls[p] < MaxCalls
    /\ sign_calls' = [sign_calls EXCEPT ![p] = @ + 1]
    /\ sign_pc' = [sign_pc EXCEPT ![p] = "check"]
    /\ UNCHANGED <<now, ticks, signature, lock, sign_seen, sign_ret, signed>>
    /\ UNCHANGED <<clientVars, sendVars, uriVars, notifyVars>>

\* The first check, under a read of the cache: a fresh token is returned as is.
SignCheck(p) ==
    /\ sign_pc[p] = "check"
    /\ lock = NoTask
    /\ sign_seen' = [sign_seen EXCEPT ![p] =
            [read |-> TRUE,
             stale |-> ~signature.valid \/ now - signature.issued_at >= 60 * 55,
             key |-> signature.key]]
    /\ IF is_expired(signature, now)
         THEN /\ sign_pc' = [sign_pc EXCEPT ![p] = "lock"]
              /\ UNCHANGED sign_ret
         ELSE /\ sign_pc' = [sign_pc EXCEPT ![p] = "done"]
              /\ sign_ret' = [sign_ret EXCEPT ![p] =
                    [set |-> TRUE, key |-> signature.key, at |-> now, renewed |-> FALSE]]
    /\ UNCHANGED <<now, ticks, signature, lock, sign_calls, signed>>
    /\ UNCHANGED <<clientVars, sendVars, uriVars, notifyVars>>

\* Acquire exclusive access.
SignLock(p) ==
    /\ sign_pc[p] = "lock"
    /\ lock = NoTask
    /\ lock' = p
    /\ sign_pc' = [sign_pc EXCEPT ![p] = "recheck"]
    /\ UNCHANGED <<now, ticks, signature, sign_seen, sign_ret, sign_calls, signed>>
    /\ UNCHANGED <<clientVars, sendVars, uriVars, notifyVars>>

\* The recheck left out: whoever gets the lock signs.
SignRecheck_norecheck(p) ==
    /\ sign_pc[p] = "recheck"
    /\ lock = p
    /\ sign_pc' = [sign_pc EXCEPT ![p] = "renew"]
    /\ UNCHANGED sign_ret
    /\ UNCHANGED <<now, ticks, signature, lock, sign_seen, sign_calls, signed>>
    /\ UNCHANGED <<clientVars, sendVars, uriVars, notifyVars>>

\* Re-check staleness inside the exclusive section.
SignRecheck(p) ==
    /\ sign_pc[p] = "recheck"
    /\ lock = p
    /\ IF is_expired(signature, now)
         THEN /\ sign_pc' = [sign_pc EXCEPT ![p] = "renew"]
              /\ UNCHANGED sign_ret
         ELSE /\ sign_pc' = [sign_pc EXCEPT ![p] = "unlock"]
              /\ sign_ret' = [sign_ret EXCEPT ![p] =
                    [set |-> TRUE, key |-> signature.key, at |-> now, renewed |-> FALSE]]
    /\ UNCHANGED <<now, ticks, signature, lock, sign_seen, sign_calls, signed>>
    /\ UNCHANGED <<clientVars, sendVars, uriVars, notifyVars>>

\* Still stale: produce a new signature and cache it with the current timestamp.
SignRenew(p) ==
    /\ sign_pc[p] = "renew"
    /\ lock = p
    /\ signature' = [valid |-> TRUE, key |-> Token(now), issued_at |-> now]
    /\ signed' = Append(signed, [by |-> p, at |-> now, prev |-> signature])
    /\ sign_ret' = [sign_ret EXCEPT ![p] =
            [set |-> TRUE, key |-> Token(now), at |-> now, renewed |-> TRUE]]
    /\ sign_pc' = [sign_pc EXCEPT ![p] = "unlock"]
    /\ UNCHANGED <<now, ticks, lock, sign_seen, sign_calls>>
    /\ UNCHANGED <<clientVars, sendVars, uriVars, notifyVars>>

\* Leave the exclusive section; sign() returns.
SignUnlock(p) ==
    /\ sign_pc[p] = "unlock"
    /\ lock = p
    /\ lock' = NoTask
    /\ sign_pc' = [sign_pc EXCEPT ![p] = "done"]
    /\ UNCHANGED <<now, ticks, signature, sign_seen, sign_ret, sign_calls, signed>>
    /\ UNCHANGED <<clientVars, sendVars, uriVars, notifyVars>>

\* The caller has its token and may call again.
SignReturn(p) ==
    /\ sign_pc[p] = "done"
    /\ sign_pc' = [sign_pc EXCEPT ![p] = "idle"]
    /\ sign_seen' = [sign_seen EXCEPT ![p] = NoSeen]
    /\ sign_ret' = [sign_ret EXCEPT ![p] = NoRet]
    /\ UNCHANGED <<now, ticks, signature, lock, sign_calls, signed>>
    /\ UNCHANGED <<clientVars, sendVars, uriVars, notifyVars>>

----------------------------------------------------------------------------
(* Endpoint, Url::join and Client::build_request (client.rs:125-142).      *)
(* A string is a sequence of symbols; "3", "device" and an origin are      *)
(* symbols of their own.                                                   *)

EndpointBase(e) ==
    IF e = "Production" THEN "https://api.push.apple.com"
                        ELSE "https://api.development.push.apple.com"

\* Endpoint::as_url: the URL that join() resolves a device token against.
as_url(e) == [origin |-> EndpointBase(e), path |-> <<<<"3">>, <<"device">>, <<>>>>]

Front(s) == SubSeq(s, 1, Len(s) - 1)

\* The segments of a path string, split at "/".
RECURSIVE SplitPath(_, _, _)
SplitPath(str, cur, acc) ==
    IF str = <<>> THEN Append(acc, cur)
    ELSE IF Head(str) = "/" THEN SplitPath(Tail(str), <<>>, Append(acc, cur))
    ELSE SplitPath(Tail(str), Append(cur, Head(str)), acc)

\* The URL parser's path state: ".." pops a segment, "." is dropped, and
\* either one in last place leaves an empty last segment.
RECURSIVE ResolveSegments(_, _)
ResolveSegments(path, segs) ==
    IF segs = <<>> THEN path
    ELSE LET seg  == Head(segs)
             last == Len(segs) = 1
             popped == IF path = <<>> THEN path ELSE Front(path)
         IN IF seg = <<".", ".">>
              THEN ResolveSegments(IF last THEN Append(popped, <<>>) ELSE popped, Tail(segs))
            ELSE IF seg = <<".">>
              THEN ResolveSegments(IF last THEN Append(path, <<>>) ELSE path, Tail(segs))
            ELSE ResolveSegments(Append(path, seg), Tail(segs))

\* Url::join: the reference resolved against the base, as a relative reference.
url_join(base, ref) ==
    IF ref = <<>> THEN base
    ELSE IF Head(ref) = "/"
      THEN [origin |-> base.origin,
            path |-> ResolveSegments(<<>>, SplitPath(Tail(ref), <<>>, <<>>))]
      ELSE [origin |-> base.origin,
            path |-> ResolveSegments(Front(base.path), SplitPath(ref, <<>>, <<>>))]

RECURSIVE PathString(_)
PathString(path) ==
    IF path = <<>> THEN <<>>
    ELSE <<"/">> \o Head(path) \o PathString(Tail(path))

\* Url::to_string
url_to_string(u) == <<u.origin>> \o PathString(u.path)

\* The headers the Request converts into (req.try_into()).
\* The Display with the two values exchanged.
Priority_fmt_swapped(p) ==
    CASE p = "High" -> "5"
      [] p = "Normal" -> "10"

\* priority.rs:18-27  impl fmt::Display for Priority
Priority_fmt(p) ==
    CASE p = "High" -> "10"
      [] p = "Normal" -> "5"

\* The value of the apns-priority header: ConsiderPower is sent as Normal.
wire_priority(p) == Priority_fmt(IF p = "ConsiderPower" THEN "Normal" ELSE p)

payload_headers(req) ==
    {<<"apns-push-type", req.push_type>>, <<"apns-priority", wire_priority(req.priority)>>}
        \cup (IF req.topic = "" THEN {} ELSE {<<"apns-topic", req.topic>>})

\* The Payload the Request converts into.
payload_of(req) == [aps |-> [content_available |-> req.content_available]]

NoHttpRequest == [uri |-> <<>>, method |-> "", headers |-> {}, body |-> payload_of([content_available |-> FALSE])]

\* client.rs:125-142. serde_json::to_vec fails on a payload that cannot be
\* serialized; every failure is returned as Err.
build_request(ep, req) ==
    IF ~req.serializable
      THEN [ok |-> FALSE, err |-> "SerializeError", request |-> NoHttpRequest]
      ELSE [ok |-> TRUE, err |-> "",
            request |-> [uri |-> url_to_string(url_join(as_url(ep), req.device_token)),
                         method |-> "POST",
                         headers |-> payload_headers(req),
                         body |-> payload_of(req)]]

----------------------------------------------------------------------------
(* Client::send (client.rs:92-123)                                         *)

None == [some |-> FALSE, v |-> <<>>]
Some(x) == [some |-> TRUE, v |-> x]

\* HeaderValue::to_str succeeds on visible ASCII (and tab) only.
is_visible_ascii(b) == (b >= 32 /\ b < 127) \/ b = 9

to_str(bytes) ==
    IF \A i \in 1..Len(bytes) : is_visible_ascii(bytes[i]) THEN Some(bytes) ELSE None

\* The id defaulted when the header is missing (unwrap_or_default).
apns_id_of_or_default(h) ==
    IF ~h.present THEN Some(<<>>) ELSE to_str(h.bytes)

\* client.rs:101-105  headers().get("apns-id").and_then(|s| s.to_str().ok()).map(String::from)
apns_id_of(h) ==
    IF ~h.present THEN None ELSE to_str(h.bytes)

\* serde_json::from_slice::<ErrorBody>(&body).ok(): a JSON object with a reason.
ParseErrorBody(body) ==
    IF body.kind = "object" /\ \E m \in body.members : m[1] = "reason"
      THEN Some(<<(CHOOSE m \in body.members : m[1] = "reason")[2]>>)
      ELSE None

NoResponse == [apns_id |-> None, error |-> None, code |-> 0]
NoOutcome  == [kind |-> "none", response |-> NoResponse]

Ok(r)  == [kind |-> "Ok", response |-> r]
Err(k) == [kind |-> k, response |-> NoResponse]
Panic  == [kind |-> "panic", response |-> NoResponse]

\* client.rs:108-112
send_ok(apns_id, status) ==
    Ok([apns_id |-> apns_id, error |-> None, code |-> status])

\* The parsed reason dropped.
response_error_noreason(apns_id, status, body) ==
    [kind |-> "ResponseError",
     response |-> [apns_id |-> apns_id, error |-> None, code |-> status]]

\* The body parsed with ? in place of .ok().
response_error_strict(apns_id, status, body) ==
    IF ParseErrorBody(body).some
      THEN [kind |-> "ResponseError",
            response |-> [apns_id |-> apns_id, error |-> ParseErrorBody(body), code |-> status]]
      ELSE Err("SerializeError")

\* client.rs:116-120
response_error(apns_id, status, body) ==
    [kind |-> "ResponseError",
     response |-> [apns_id |-> apns_id, error |-> ParseErrorBody(body), code |-> status]]

HeaderAbsent == [present |-> FALSE, bytes |-> <<>>]
NoBody == [kind |-> "empty", members |-> {}]
NoResp == [status |-> 0, apns_id |-> HeaderAbsent, body |-> NoBody, body_read |-> FALSE]
NoRequest == [device_token |-> <<>>, push_type |-> "", priority |-> "ConsiderPower",
              topic |-> "", content_available |-> FALSE, serializable |-> TRUE]

\* What the service may answer.
Statuses == {200, 204, 400}
ApnsIdHeaders ==
    {HeaderAbsent,
     [present |-> TRUE, bytes |-> <<65, 45, 49>>],
     [present |-> TRUE, bytes |-> <<65, 200>>]}
Bodies ==
    {NoBody,
     [kind |-> "garbage", members |-> {}],
     [kind |-> "object", members |-> {<<"reason", "BadDeviceToken">>}],
     [kind |-> "object", members |-> {<<"error", "x">>}]}

\* The Requests given to send.
SendRequests ==
    {[device_token |-> <<"a", "f">>, push_type |-> "alert", priority |-> "High",
      topic |-> "app", content_available |-> FALSE, serializable |-> TRUE],
     [device_token |-> <<"a", "f">>, push_type |-> "background", priority |-> "ConsiderPower",
      topic |-> "", content_available |-> TRUE, serializable |-> FALSE]}

\* client.rs:96-97  build_request(req).unwrap(), then the request is handed
\* to the transport; send suspends at requesting.await.
SendCall(q, req) ==
    /\ send_pc[q] = "idle"
    /\ sends[q] < MaxSends
    /\ sends' = [sends EXCEPT ![q] = @ + 1]
    /\ send_req' = [send_req EXCEPT ![q] = req]
    /\ LET built == build_request(endpoint, req)
       IN IF built.ok
            THEN /\ issued' = [issued EXCEPT ![q] = Append(@, built.request)]
                 /\ send_pc' = [send_pc EXCEPT ![q] = "awaiting"]
                 /\ UNCHANGED outcome
            ELSE /\ send_pc' = [send_pc EXCEPT ![q] = "panicked"]
                 /\ outcome' = [outcome EXCEPT ![q] = Panic]
                 /\ UNCHANGED issued
    /\ UNCHANGED <<resp, earlier>>
    /\ UNCHANGED <<clientVars, signerVars, uriVars, notifyVars>>

\* client.rs:99  requesting.await? : a transport failure is returned.
TransportError(q) ==
    /\ send_pc[q] = "awaiting"
    /\ outcome' = [outcome EXCEPT ![q] = Err("ConnectionError")]
    /\ send_pc' = [send_pc EXCEPT ![q] = "returned"]
    /\ UNCHANGED <<send_req, issued, resp, sends, earlier>>
    /\ UNCHANGED <<clientVars, signerVars, uriVars, notifyVars>>

\* Success decided by StatusCode::is_success: every 2xx status returns Ok.
ResponseHead_is_success(q, status, hdr) ==
    /\ send_pc[q] = "awaiting"
    /\ resp' = [resp EXCEPT ![q] = [status |-> status, apns_id |-> hdr,
                                    body |-> NoBody, body_read |-> FALSE]]
    /\ IF status >= 200 /\ status < 300
         THEN /\ outcome' = [outcome EXCEPT ![q] = send_ok(apns_id_of(hdr), status)]
              /\ send_pc' = [send_pc EXCEPT ![q] = "returned"]
         ELSE /\ send_pc' = [send_pc EXCEPT ![q] = "body"]
              /\ UNCHANGED outcome
    /\ UNCHANGED <<send_req, issued, sends, earlier>>
    /\ UNCHANGED <<clientVars, signerVars, uriVars, notifyVars>>

\* client.rs:99-113  the response head arrives: 200 returns Ok, any other
\* status goes on to read the body.
ResponseHead(q, status, hdr) ==
    /\ send_pc[q] = "awaiting"
    /\ resp' = [resp EXCEPT ![q] = [status |-> status, apns_id |-> hdr,
                                    body |-> NoBody, body_read |-> FALSE]]
    /\ IF status = 200
         THEN /\ outcome' = [outcome EXCEPT ![q] = send_ok(apns_id_of(hdr), status)]
              /\ send_pc' = [send_pc EXCEPT ![q] = "returned"]
         ELSE /\ send_pc' = [send_pc EXCEPT ![q] = "body"]
              /\ UNCHANGED outcome
    /\ UNCHANGED <<send_req, issued, sends, earlier>>
    /\ UNCHANGED <<clientVars, signerVars, uriVars, notifyVars>>

\* client.rs:114  hyper::body::to_bytes(response).await? fails.
BodyError(q) ==
    /\ send_pc[q] = "body"
    /\ outcome' = [outcome EXCEPT ![q] = Err("ConnectionError")]
    /\ send_pc' = [send_pc EXCEPT ![q] = "returned"]
    /\ UNCHANGED <<send_req, issued, resp, sends, earlier>>
    /\ UNCHANGED <<clientVars, signerVars, uriVars, notifyVars>>

\* What the body's arrival does to the call.
BodyReadSend(q, body) ==
    /\ send_pc[q] = "body"
    /\ resp' = [resp EXCEPT ![q].body = body, ![q].body_read = TRUE]
    /\ outcome' = [outcome EXCEPT ![q] =
            response_error(apns_id_of(resp[q].apns_id), resp[q].status, body)]
    /\ send_pc' = [send_pc EXCEPT ![q] = "returned"]
    /\ UNCHANGED <<send_req, issued, sends, earlier>>

\* A rejected send that throws the Signer's cached token away.
BodyRead_invalidate(q, body) ==
    /\ BodyReadSend(q, body)
    /\ signature' = NewSignature
    /\ UNCHANGED <<now, ticks, lock, sign_pc, sign_seen, sign_ret, sign_calls, signed>>
    /\ UNCHANGED <<clientVars, uriVars, notifyVars>>

\* client.rs:114-120  the body is read to its end and ResponseError returned.
BodyRead(q, body) ==
    /\ BodyReadSend(q, body)
    /\ UNCHANGED <<clientVars, signerVars, uriVars, notifyVars>>

\* What dropping the future does to the call: its locals are gone and
\* nothing is reported.
SendAbandonCall(q) ==
    /\ send_pc[q] \in {"awaiting", "body"}
    /\ earlier' = [earlier EXCEPT ![q] = "abandoned"]
    /\ send_pc' = [send_pc EXCEPT ![q] = "idle"]
    /\ send_req' = [send_req EXCEPT ![q] = NoRequest]
    /\ issued' = [issued EXCEPT ![q] = <<>>]
    /\ resp' = [resp EXCEPT ![q] = NoResp]
    /\ UNCHANGED sends

\* A dropped send that takes the shared connection down with it: the sends
\* waiting on it fail.
SendAbandon_poison(q) ==
    /\ SendAbandonCall(q)
    /\ outcome' = [r \in SendTasks |->
            IF r # q /\ send_pc[r] = "awaiting" THEN Err("ConnectionError") ELSE NoOutcome]
    /\ UNCHANGED <<clientVars, signerVars, uriVars, notifyVars>>

\* client.rs:99, 114  the caller drops the future of send at one of its two
\* await points.
SendAbandon(q) ==
    /\ SendAbandonCall(q)
    /\ outcome' = [outcome EXCEPT ![q] = NoOutcome]
    /\ UNCHANGED <<clientVars, signerVars, uriVars, notifyVars>>

\* The caller takes what send reported; the task may send again.
SendDone(q) ==
    /\ send_pc[q] \in {"returned", "panicked"}
    /\ earlier' = [earlier EXCEPT ![q] = outcome[q].kind]
    /\ send_pc' = [send_pc EXCEPT ![q] = "idle"]
    /\ send_req' = [send_req EXCEPT ![q] = NoRequest]
    /\ issued' = [issued EXCEPT ![q] = <<>>]
    /\ resp' = [resp EXCEPT ![q] = NoResp]
    /\ outcome' = [outcome EXCEPT ![q] = NoOutcome]
    /\ UNCHANGED sends
    /\ UNCHANGED <<clientVars, signerVars, uriVars, notifyVars>>

----------------------------------------------------------------------------
(* build_request on its own, over device tokens of hex digits, "." and "/" *)

TokenSymbols == {"a", "f", ".", "/"}

\* Every device token up to MaxTokenLen symbols; a token starting with "//"
\* names another host and is left out.
DeviceTokens ==
    {t \in UNION {[1..n -> TokenSymbols] : n \in 0..MaxTokenLen} :
        ~(Len(t) >= 2 /\ t[1] = "/" /\ t[2] = "/")}

\* client::Priority
Priorities == {"High", "Normal", "ConsiderPower"}

UriRequests ==
    {[device_token |-> t, push_type |-> pt, priority |-> pr, topic |-> tp,
      content_available |-> (pt = "background"), serializable |-> TRUE] :
        t \in DeviceTokens, pt \in {"alert", "background"},
        pr \in Priorities, tp \in {"", "app"}}

\* client.rs:220  client.build_request(payload)
BuildRequest ==
    /\ uri_pc = "idle"
    /\ uri_res' = build_request(endpoint, uri_req)
    /\ uri_pc' = "built"
    /\ UNCHANGED uri_req
    /\ UNCHANGED <<clientVars, signerVars, sendVars, notifyVars>>

----------------------------------------------------------------------------
(* CollapseId::new (request/collapse.rs) and PushNotification::build_request *)
(* (notification.rs).  A collapse-id string is a run of one character: "A" *)
(* takes one byte in UTF-8 and "é" two.                                    *)

EmptyStr == [ch |-> "A", n |-> 0]

CollapseStrings ==
    {EmptyStr} \cup {[ch |-> c, n |-> n] : c \in {"A", "é"}, n \in 1..MaxCollapseChars}

utf8_width(c) == IF c = "A" THEN 1 ELSE 2

\* str::len: the length in bytes.
str_len(value) == value.n * utf8_width(value.ch)

NoCollapseId == [ok |-> FALSE, err |-> "", value |-> EmptyStr]

\* The length counted in characters (value.chars().count()).
CollapseId_new_chars(value) ==
    IF value.n > 64
      THEN [ok |-> FALSE, err |-> "InvalidOptions", value |-> EmptyStr]
      ELSE [ok |-> TRUE, err |-> "", value |-> value]

\* collapse.rs:10-18
CollapseId_new(value) ==
    IF str_len(value) > 64
      THEN [ok |-> FALSE, err |-> "InvalidOptions", value |-> EmptyStr]
      ELSE [ok |-> TRUE, err |-> "", value |-> value]

\* An Option whose value, when present, is the one element of v.
Opt(x) == [some |-> TRUE, v |-> <<x>>]

\* time::Duration::days
days(n) == n * 24 * 60 * 60

\* Alert { ..Default::default() }
AlertDefault == [title |-> None, body |-> None, subtitle |-> None]

\* Sound::from(String)
Sound_from(name) == [name |-> name]

\* Request { ..Default::default() }
RequestDefault ==
    [device_token |-> <<>>, push_type |-> "Alert", id |-> None, expiration |-> None,
     priority |-> "ConsiderPower", topic |-> None, collapse_id |-> None,
     content_available |-> FALSE, mutable_content |-> FALSE, alert |-> None,
     badge |-> None, sound |-> None, interruption_level |-> None, user_info |-> None]

\* collapse_id.map(|c| c.value.to_string())
collapse_value(cid) == IF cid.some THEN Opt(cid.v[1].value) ELSE None

\* The Data arm without content_available.
build_request_data_silent(data, topic, collapse_id, device_token, uid, t) ==
    [ok |-> TRUE,
     request |-> [RequestDefault EXCEPT
        !.device_token = device_token,
        !.push_type = "Background",
        !.id = Opt(uid),
        !.expiration = Opt(t + days(1)),
        !.priority = "ConsiderPower",
        !.topic = topic,
        !.collapse_id = collapse_value(collapse_id),
        !.user_info = Opt(data.value)]]

\* notification.rs:48-59  PushNotification::Data(data) => Ok(Request { .. })
build_request_data(data, topic, collapse_id, device_token, uid, t) ==
    [ok |-> TRUE,
     request |-> [RequestDefault EXCEPT
        !.device_token = device_token,
        !.push_type = "Background",
        !.id = Opt(uid),
        !.expiration = Opt(t + days(1)),
        !.priority = "ConsiderPower",
        !.topic = topic,
        !.collapse_id = collapse_value(collapse_id),
        !.content_available = TRUE,
        !.user_info = Opt(data.value)]]

\* The Alert arm with title and body exchanged.
build_request_alert_swapped(alert, topic, collapse_id, device_token, uid, t) ==
    [ok |-> TRUE,
     request |-> [RequestDefault EXCEPT
        !.device_token = device_token,
        !.push_type = "Alert",
        !.id = Opt(uid),
        !.expiration = Opt(t + days(1)),
        !.priority = "ConsiderPower",
        !.topic = topic,
        !.collapse_id = collapse_value(collapse_id),
        !.badge = alert.badge,
        !.sound = IF alert.sound.some THEN Opt(Sound_from(alert.sound.v[1])) ELSE None,
        !.alert = Opt([AlertDefault EXCEPT !.title = alert.body, !.body = alert.title])]]

\* notification.rs:60-76  PushNotification::Alert(alert) => Ok(Request { .. })
build_request_alert(alert, topic, collapse_id, device_token, uid, t) ==
    [ok |-> TRUE,
     request |-> [RequestDefault EXCEPT
        !.device_token = device_token,
        !.push_type = "Alert",
        !.id = Opt(uid),
        !.expiration = Opt(t + days(1)),
        !.priority = "ConsiderPower",
        !.topic = topic,
        !.collapse_id = collapse_value(collapse_id),
        !.badge = alert.badge,
        !.sound = IF alert.sound.some THEN Opt(Sound_from(alert.sound.v[1])) ELSE None,
        !.alert = Opt([AlertDefault EXCEPT !.title = alert.title, !.body = alert.body])]]

\* notification.rs:40-78  match self { Data, Alert }
PushNotification_build_request(n, topic, collapse_id, device_token, uid, t) ==
    IF n.kind = "Data"
      THEN build_request_data(n, topic, collapse_id, device_token, uid, t)
      ELSE build_request_alert(n, topic, collapse_id, device_token, uid, t)

NoBuilt == [ok |-> FALSE, request |-> RequestDefault]

\* The notifications: data-only with a JSON value, or an alert.
Notifications ==
    {[kind |-> "Data", value |-> v, title |-> None, body |-> None,
      sound |-> None, badge |-> None] : v \in {"null", "{\"k\":1}"}}
    \cup
    {[kind |-> "Alert", value |-> "", title |-> ti, body |-> bo, sound |-> so, badge |-> ba] :
        ti \in {None, Opt("T")}, bo \in {None, Opt("B")},
        so \in {None, Opt("ping")}, ba \in {None, Opt(3)}}

NotifyInputs ==
    {[notification |-> n, topic |-> tp, collapse |-> c,
      device_token |-> <<"a", "f">>, uid |-> "uuid"] :
        n \in Notifications, tp \in {None, Opt("app")},
        c \in {None} \cup {Opt(str) : str \in CollapseStrings}}

\* The caller builds the CollapseId it will pass on.
NewCollapseId ==
    /\ nt_pc = "start"
    /\ nt_in.collapse.some
    /\ nt_cid' = CollapseId_new(nt_in.collapse.v[1])
    /\ nt_pc' = IF nt_cid'.ok THEN "collapsed" ELSE "rejected"
    /\ UNCHANGED <<nt_in, nt_req>>
    /\ UNCHANGED <<clientVars, signerVars, sendVars, uriVars>>

\* notification.build_request(topic, collapse_id, device_token, uid), with the
\* CollapseId built before it or with none.
BuildNotification ==
    /\ \/ nt_pc = "collapsed"
       \/ nt_pc = "start" /\ ~nt_in.collapse.some
    /\ nt_req' = PushNotification_build_request(
                    nt_in.notification, nt_in.topic,
                    IF nt_pc = "collapsed" THEN Opt(nt_cid) ELSE None,
                    nt_in.device_token, nt_in.uid, now)
    /\ nt_pc' = "built"
    /\ UNCHANGED <<nt_in, nt_cid>>
    /\ UNCHANGED <<clientVars, signerVars, sendVars, uriVars>>

----------------------------------------------------------------------------
(* Initial states *)

Endpoints == {"Production", "Development"}

InitClient ==
    /\ endpoint \in Endpoints
    /\ signer \in {"none", "some"}

InitSignTasks ==
    /\ now = 0
    /\ ticks = 0
    /\ lock = NoTask
    /\ sign_pc = [p \in SignTasks |-> "idle"]
    /\ sign_seen = [p \in SignTasks |-> NoSeen]
    /\ sign_ret = [p \in SignTasks |-> NoRet]
    /\ sign_calls = [p \in SignTasks |-> 0]
    /\ signed = <<>>

InitSigner ==
    /\ signature = NewSignature
    /\ InitSignTasks

InitSend ==
    /\ send_pc = [q \in SendTasks |-> "idle"]
    /\ send_req = [q \in SendTasks |-> NoRequest]
    /\ issued = [q \in SendTasks |-> <<>>]
    /\ resp = [q \in SendTasks |-> NoResp]
    /\ outcome = [q \in SendTasks |-> NoOutcome]
    /\ sends = [q \in SendTasks |-> 0]
    /\ earlier = [q \in SendTasks |-> "none"]

InitUri ==
    /\ uri_pc = "idle"
    /\ uri_req = NoRequest
    /\ uri_res = build_request("Production", [NoRequest EXCEPT !.serializable = FALSE])

InitNotify ==
    /\ nt_pc = "idle"
    /\ nt_in = [notification |-> CHOOSE n \in Notifications : n.kind = "Data" /\ n.value = "null",
                topic |-> None, collapse |-> None, device_token |-> <<>>, uid |-> ""]
    /\ nt_cid = NoCollapseId
    /\ nt_req = NoBuilt

----------------------------------------------------------------------------
(* SpecSigner: sign() callers of one token-mode Client, and the clock.     *)

InitSignerSpec ==
    /\ endpoint = "Production"
    /\ signer = "some"
    /\ InitSigner
    /\ InitSend
    /\ InitUri
    /\ InitNotify

NextSigner ==
    \/ \E d \in TickSteps : Tick(d)
    \/ \E p \in SignTasks : SignCall(p)
    \/ \E p \in SignTasks : SignCheck(p)
    \/ \E p \in SignTasks : SignLock(p)
    \/ \E p \in SignTasks : SignRecheck(p)
    \/ \E p \in SignTasks : SignRenew(p)
    \/ \E p \in SignTasks : SignUnlock(p)
    \/ \E p \in SignTasks : SignReturn(p)

SpecSigner == InitSignerSpec /\ [][NextSigner]_vars

----------------------------------------------------------------------------
(* Spec: send() calls on one Client, in certificate or token mode.  The    *)
(* Signer of a token-mode Client has no token yet, or one signed at 0.     *)

InitSendSpec ==
    /\ InitClient
    /\ signature \in (IF signer = "some"
                        THEN {NewSignature, [valid |-> TRUE, key |-> Token(0), issued_at |-> 0]}
                        ELSE {NewSignature})
    /\ InitSignTasks
    /\ InitSend
    /\ InitUri
    /\ InitNotify

Next ==
    \/ \E q \in SendTasks, req \in SendRequests : SendCall(q, req)
    \/ \E q \in SendTasks : TransportError(q)
    \/ \E q \in SendTasks, status \in Statuses, hdr \in ApnsIdHeaders : ResponseHead(q, status, hdr)
    \/ \E q \in SendTasks : BodyError(q)
    \/ \E q \in SendTasks, body \in Bodies : BodyRead(q, body)
    \/ \E q \in SendTasks : SendAbandon(q)
    \/ \E q \in SendTasks : SendDone(q)

Spec == InitSendSpec /\ [][Next]_vars

----------------------------------------------------------------------------
(* SpecUri: build_request applied to one Request of one Client.            *)

InitUriSpec ==
    /\ InitClient
    /\ InitSigner
    /\ InitSend
    /\ uri_pc = "idle"
    /\ uri_req \in UriRequests
    /\ uri_res = build_request("Production", [NoRequest EXCEPT !.serializable = FALSE])
    /\ InitNotify

NextUri == BuildRequest

SpecUri == InitUriSpec /\ [][NextUri]_vars

----------------------------------------------------------------------------
(* SpecNotify: one notification turned into a Request, its CollapseId      *)
(* built first.                                                            *)

NotifyClocks == {0, 1700000000}

InitNotifySpec ==
    /\ InitClient
    /\ signature = NewSignature
    /\ now \in NotifyClocks
    /\ ticks = 0
    /\ lock = NoTask
    /\ sign_pc = [p \in SignTasks |-> "idle"]
    /\ sign_seen = [p \in SignTasks |-> NoSeen]
    /\ sign_ret = [p \in SignTasks |-> NoRet]
    /\ sign_calls = [p \in SignTasks |-> 0]
    /\ signed = <<>>
    /\ InitSend
    /\ InitUri
    /\ nt_pc = "start"
    /\ nt_in \in NotifyInputs
    /\ nt_cid = NoCollapseId
    /\ nt_req = NoBuilt

NextNotify ==
    \/ NewCollapseId
    \/ BuildNotification

SpecNotify == InitNotifySpec /\ [][NextNotify]_vars

----------------------------------------------------------------------------
(* Claims *)

\* C1: concurrent sign() callers that find the cache stale cause at most one
\* signing operation for that stale period (a signing only ever replaces a
\* stale cache, and two signings are at least a TTL apart), and every caller
\* returns a token some signing produced whose age, when it is returned, is
\* below the TTL.
C1_OneSigningPerStalePeriod ==
    /\ \A i \in 1..Len(signed) :
          ~signed[i].prev.valid \/ signed[i].at - signed[i].prev.issued_at >= 60 * 55
    /\ \A i, j \in 1..Len(signed) :
          i < j => signed[j].at - signed[i].at >= 60 * 55
    /\ \A p \in SignTasks :
          sign_ret[p].set =>
             /\ \E i \in 1..Len(signed) : sign_ret[p].key = [iss |-> "TEAM", iat |-> signed[i].at]
             /\ sign_ret[p].at - sign_ret[p].key.iat < 60 * 55

\* Two callers both found the cache stale, one signing happened, and both
\* returned its token.
C1_Witness ==
    /\ Len(signed) = 1
    /\ \A p \in SignTasks :
          /\ sign_pc[p] = "done"
          /\ sign_seen[p].stale
          /\ sign_ret[p].key = [iss |-> "TEAM", iat |-> signed[1].at]
    /\ \E p \in SignTasks : ~sign_ret[p].renewed

\* C2: a sign() call that finds the cached token younger than the TTL returns
\* that cached token and signs nothing; a call that finds its age at least the
\* TTL returns a token different from the one it found cached.
C2_FreshCachedStaleDifferent ==
    \A p \in SignTasks :
        (sign_seen[p].read /\ sign_ret[p].set) =>
            /\ ~sign_seen[p].stale =>
                  (sign_ret[p].key = sign_seen[p].key /\ ~sign_ret[p].renewed)
            /\ sign_seen[p].stale => sign_ret[p].key # sign_seen[p].key

\* One caller's second call got the cached token back while another caller,
\* having found an expired token cached, holds a different one.
C2_Witness ==
    \E p, r \in SignTasks :
        /\ p # r
        /\ sign_calls[p] = 2 /\ sign_pc[p] = "done"
        /\ ~sign_seen[p].stale /\ sign_ret[p].key = sign_seen[p].key
        /\ sign_pc[r] = "done" /\ sign_seen[r].stale
        /\ sign_seen[r].key.iss = "TEAM" /\ sign_ret[r].key # sign_seen[r].key

\* C3: in token mode every request handed to the transport carries an
\* authorization header "bearer <token>" with the Signer's token.
C3_TokenModeCarriesBearer ==
    signer = "some" =>
        \A q \in SendTasks : \A i \in 1..Len(issued[q]) :
            \E h \in issued[q][i].headers :
                h[1] = "authorization" /\ h[2] = <<"bearer", signature.key>>

\* C4 (as amended): on status 200 send returns Ok with code 200 and no error,
\* and apns_id is the apns-id header's value when the header is present and
\* all of its bytes are visible ASCII (or tab), and absent otherwise.
C4_Status200Ok ==
    \A q \in SendTasks :
        (send_pc[q] = "returned" /\ resp[q].status = 200) =>
            /\ outcome[q].kind = "Ok"
            /\ outcome[q].response.code = 200
            /\ ~outcome[q].response.error.some
            /\ LET h == resp[q].apns_id
                   readable == \A i \in 1..Len(h.bytes) :
                                  (h.bytes[i] >= 32 /\ h.bytes[i] < 127) \/ h.bytes[i] = 9
               IN outcome[q].response.apns_id =
                     (IF h.present /\ readable THEN [some |-> TRUE, v |-> h.bytes]
                                               ELSE [some |-> FALSE, v |-> <<>>])

\* A 200 answer whose apns-id header was handed on.
C4_Witness ==
    \E q \in SendTasks :
        /\ send_pc[q] = "returned" /\ resp[q].status = 200
        /\ resp[q].apns_id.present
        /\ outcome[q].response.apns_id = [some |-> TRUE, v |-> resp[q].apns_id.bytes]

\* C4 as stated: on status 200 the apns_id is the header's value verbatim,
\* and absent only when the header is absent.
C4_ApnsIdVerbatim ==
    \A q \in SendTasks :
        (send_pc[q] = "returned" /\ resp[q].status = 200) =>
            /\ outcome[q].kind = "Ok"
            /\ outcome[q].response.code = 200
            /\ ~outcome[q].response.error.some
            /\ outcome[q].response.apns_id =
                  (IF resp[q].apns_id.present
                     THEN [some |-> TRUE, v |-> resp[q].apns_id.bytes]
                     ELSE [some |-> FALSE, v |-> <<>>])

\* C5: a non-200 answer whose body is a JSON object with a reason is returned
\* as a ResponseError carrying that reason and the received status.
C5_ReasonAndStatus ==
    \A q \in SendTasks :
        (send_pc[q] = "returned" /\ resp[q].status # 200 /\ resp[q].body_read) =>
            \A m \in resp[q].body.members :
                (resp[q].body.kind = "object" /\ m[1] = "reason") =>
                    /\ outcome[q].kind = "ResponseError"
                    /\ outcome[q].response.error = [some |-> TRUE, v |-> <<m[2]>>]
                    /\ outcome[q].response.code = resp[q].status

\* A 400 answer with {"reason": "BadDeviceToken"} was returned with that reason.
C5_Witness ==
    \E q \in SendTasks :
        /\ send_pc[q] = "returned" /\ resp[q].status = 400 /\ resp[q].body_read
        /\ <<"reason", "BadDeviceToken">> \in resp[q].body.members
        /\ outcome[q].response.error = [some |-> TRUE, v |-> <<"BadDeviceToken">>]

\* C6: a non-200 answer whose body is empty or is no reason object is still
\* returned as a ResponseError, with no error and the received status.
C6_StatusKeptWithoutReason ==
    \A q \in SendTasks :
        (/\ send_pc[q] = "returned" /\ resp[q].status # 200 /\ resp[q].body_read
         /\ ~(resp[q].body.kind = "object"
                /\ \E m \in resp[q].body.members : m[1] = "reason")) =>
            /\ outcome[q].kind = "ResponseError"
            /\ ~outcome[q].response.error.some
            /\ outcome[q].response.code = resp[q].status

\* A 400 answer with no body and a 204 answer with an unparseable one were
\* both returned as ResponseError with their status.
C6_Witness ==
    \E q, r \in SendTasks :
        /\ send_pc[q] = "returned" /\ resp[q].status = 400 /\ resp[q].body_read
        /\ resp[q].body.kind = "empty"
        /\ outcome[q].kind = "ResponseError" /\ outcome[q].response.code = 400
        /\ send_pc[r] = "returned" /\ resp[r].status = 204 /\ resp[r].body_read
        /\ resp[r].body.kind = "garbage"
        /\ outcome[r].kind = "ResponseError" /\ outcome[r].response.code = 204

\* C7: a send hands at most one request to the transport, and a send that has
\* ended has reported one outcome, a value or an error, to its caller.
C7_OneRequestOneOutcome ==
    \A q \in SendTasks :
        /\ Len(issued[q]) <= 1
        /\ send_pc[q] \in {"returned", "panicked"} =>
              outcome[q].kind \in {"Ok", "ConnectionError", "ResponseError", "SerializeError"}

\* C8: a step in which a send fails (a transport failure, a non-200 answer, a
\* request that cannot be built) changes neither the Client's endpoint and
\* mode nor the Signer's cached token, timestamp and exclusive section.
C8_FailedSendFrame ==
    [][(\E q \in SendTasks :
            /\ outcome[q].kind = "none"
            /\ outcome'[q].kind \in {"ConnectionError", "ResponseError", "SerializeError", "panic"})
        => /\ endpoint' = endpoint
           /\ signer' = signer
           /\ signature' = signature
           /\ lock' = lock]_vars

\* After a failed send, a later send of the same task on the same token-mode
\* Client, whose Signer holds a token, succeeded.
C8_Witness ==
    \E q \in SendTasks :
        /\ earlier[q] \in {"ConnectionError", "ResponseError", "panic"}
        /\ send_pc[q] = "returned" /\ outcome[q].kind = "Ok"
        /\ signer = "some" /\ signature.valid

\* C9: a request that cannot be serialized makes send return SerializeError;
\* send never panics.
C9_FailuresAreReturned ==
    \A q \in SendTasks :
        /\ send_pc[q] # "panicked"
        /\ (send_pc[q] # "idle" /\ ~send_req[q].serializable) =>
              (send_pc[q] = "returned" /\ outcome[q].kind = "SerializeError")

\* C10: the built request's URI is the endpoint's base URL, then /3/device/,
\* then the device token exactly.
C10_UriIsBaseDeviceToken ==
    (uri_pc = "built" /\ uri_res.ok) =>
        uri_res.request.uri =
            <<IF endpoint = "Production" THEN "https://api.push.apple.com"
                                         ELSE "https://api.development.push.apple.com">>
            \o <<"/", "3", "/", "device", "/">> \o uri_req.device_token

\* C11: CollapseId::new(s) returns a CollapseId holding s unchanged exactly
\* when s is at most 64 bytes long, and Error::InvalidOptions for a longer s.
C11_CollapseIdAtMost64Bytes ==
    (nt_pc \in {"collapsed", "rejected", "built"} /\ nt_in.collapse.some) =>
        LET str == nt_in.collapse.v[1]
            bytes == IF str.ch = "A" THEN str.n ELSE 2 * str.n
        IN /\ bytes <= 64 => (nt_cid.ok /\ nt_cid.value = str)
           /\ bytes > 64 => (~nt_cid.ok /\ nt_cid.err = "InvalidOptions")

\* A string of 64 bytes was accepted as it is.
C11_Witness ==
    /\ nt_pc = "collapsed"
    /\ nt_in.collapse.v[1] = [ch |-> "é", n |-> 32]
    /\ nt_cid.ok /\ nt_cid.value = [ch |-> "é", n |-> 32]

C13_DataNotificationRequest ==
    /\ (nt_pc = "built" /\ nt_in.notification.kind = "Data") =>
        /\ nt_req.ok
        /\ nt_req.request.push_type = "Background"
        /\ nt_req.request.content_available = TRUE
        /\ nt_req.request.priority = "ConsiderPower"
        /\ nt_req.request.expiration.some
        /\ nt_req.request.expiration.v[1] = now + 86400
        /\ nt_req.request.user_info.some
        /\ nt_req.request.user_info.v[1] = nt_in.notification.value
        /\ ~nt_req.request.alert.some
        /\ ~nt_req.request.badge.some
        /\ ~nt_req.request.sound.some
    /\ (nt_in.notification.kind = "Data" /\ (nt_pc = "collapsed" \/
            (nt_pc = "start" /\ ~nt_in.collapse.some))) => ENABLED BuildNotification

\* A data-only notification with a collapse id became a Request.
C13_Witness ==
    /\ nt_pc = "built"
    /\ nt_in.notification.kind = "Data"
    /\ nt_in.notification.value = "{\"k\":1}"
    /\ nt_in.collapse.some
    /\ now > 0
    /\ nt_req.ok
    /\ nt_req.request.user_info = Opt("{\"k\":1}")

\* C14: build_request on an alert notification always succeeds: the Request
\* has push type Alert, priority ConsiderPower, an expiration one day after
\* the current time, an alert holding exactly the notification's title and
\* body and no subtitle, badge and sound copied from the notification,
\* content_available false and no user_info.
C14_AlertNotificationRequest ==
    /\ (nt_pc = "built" /\ nt_in.notification.kind = "Alert") =>
        /\ nt_req.ok
        /\ nt_req.request.push_type = "Alert"
        /\ nt_req.request.priority = "ConsiderPower"
        /\ nt_req.request.expiration.some
        /\ nt_req.request.expiration.v[1] = now + 86400
        /\ nt_req.request.alert.some
        /\ nt_req.request.alert.v[1].title = nt_in.notification.title
        /\ nt_req.request.alert.v[1].body = nt_in.notification.body
        /\ ~nt_req.request.alert.v[1].subtitle.some
        /\ nt_req.request.badge = nt_in.notification.badge
        /\ nt_req.request.sound.some = nt_in.notification.sound.some
        /\ nt_in.notification.sound.some =>
               nt_req.request.sound.v[1].name = nt_in.notification.sound.v[1]
        /\ nt_req.request.content_available = FALSE
        /\ ~nt_req.request.user_info.some
    /\ (nt_in.notification.kind = "Alert" /\ (nt_pc = "collapsed" \/
            (nt_pc = "start" /\ ~nt_in.collapse.some))) => ENABLED BuildNotification

\* An alert with a title, no body, a sound and a badge became a Request.
C14_Witness ==
    /\ nt_pc = "built"
    /\ nt_in.notification.kind = "Alert"
    /\ nt_in.notification.title.some
    /\ ~nt_in.notification.body.some
    /\ nt_in.notification.sound.some
    /\ nt_in.notification.badge = Opt(3)
    /\ nt_req.ok
    /\ nt_req.request.alert.v[1].title = Opt("T")
    /\ nt_req.request.badge = Opt(3)

\* C15: the Signer starts Stale with no cached token, so no sign() returns
\* before a signing operation has happened; the cache goes from Stale to
\* Fresh only in a step that completes a signing operation, and from Fresh to
\* Stale only by the clock bringing its age to the TTL; neither state is
\* terminal: a Fresh cache can age and some caller of a Stale one can move.
C15_SignerLifecycle ==
    /\ (~signature.valid /\ signature.key = [iss |-> "", iat |-> 0])
    /\ [][LET Stale(sig, t) == ~sig.valid \/ t - sig.issued_at >= 60 * 55
          IN /\ (Len(signed') = 0) => \A p \in SignTasks : ~sign_ret'[p].set
             /\ (Stale(signature, now) /\ ~Stale(signature', now')) =>
                   /\ Len(signed') = Len(signed) + 1
                   /\ signed'[Len(signed')].at = now'
                   /\ signature'.issued_at = now'
                   /\ signature'.key = [iss |-> "TEAM", iat |-> now']
                   /\ now' = now
             /\ (~Stale(signature, now) /\ Stale(signature', now')) =>
                   /\ signature' = signature
                   /\ signed' = signed
                   /\ now' > now
                   /\ now' - signature.issued_at >= 60 * 55
             /\ (~Stale(signature, now) /\ ticks < MaxTicks) =>
                   ENABLED (\E d \in TickSteps : Tick(d) /\ Stale(signature', now'))
             /\ (Stale(signature, now) /\ \E p \in SignTasks :
                        sign_pc[p] # "idle" \/ sign_calls[p] < MaxCalls) =>
                   ENABLED (\E p \in SignTasks :
                        \/ SignCall(p) \/ SignCheck(p) \/ SignLock(p) \/ SignRecheck(p)
                        \/ SignRenew(p) \/ SignUnlock(p) \/ SignReturn(p))
       ]_vars

\* The cache went Stale, Fresh, Stale, Fresh and is Stale again.
C15_Witness ==
    /\ Len(signed) = 2
    /\ ~signed[1].prev.valid
    /\ signed[2].prev.valid
    /\ signature.valid
    /\ now - signature.issued_at >= 60 * 55

\* C16: a send dropped at one of its await points changes nothing but its
\* own call: the Client, the Signer's cached token, timestamp and lock and
\* every other send stay as they were, the lock is not held, and every send
\* that returns, concurrent or later, returns what the answer to it decides.
C16_AbandonedSendFrame ==
    /\ [](/\ lock = "nobody"
          /\ signature.valid => signature.key = [iss |-> "TEAM", iat |-> signature.issued_at]
          /\ \A q \in SendTasks :
                send_pc[q] = "returned" =>
                   outcome[q].kind =
                      (IF resp[q].status = 200 THEN "Ok"
                       ELSE IF resp[q].body_read THEN "ResponseError"
                       ELSE "ConnectionError"))
    /\ [][\A q \in SendTasks :
            (send_pc[q] \in {"awaiting", "body"} /\ send_pc'[q] = "idle") =>
                /\ endpoint' = endpoint /\ signer' = signer
                /\ signature' = signature /\ lock' = lock
                /\ outcome'[q].kind = "none"
                /\ sends'[q] = sends[q]
                /\ \A r \in SendTasks \ {q} :
                      /\ send_pc'[r] = send_pc[r] /\ send_req'[r] = send_req[r]
                      /\ issued'[r] = issued[r] /\ resp'[r] = resp[r]
                      /\ outcome'[r] = outcome[r] /\ sends'[r] = sends[r]
                      /\ earlier'[r] = earlier[r]]_vars

\* On a token-mode Client with a cached token, a task that dropped a send has
\* sent again and got Ok while another task's send came back rejected.
C16_Witness ==
    \E q, r \in SendTasks :
        /\ q # r
        /\ signer = "some" /\ signature.valid
        /\ earlier[q] = "abandoned"
        /\ send_pc[q] = "returned" /\ outcome[q].kind = "Ok"
        /\ send_pc[r] = "returned" /\ outcome[r].kind = "ResponseError"

\* C17: every token sign() returns has, when sign() returns it, an age
\* strictly below the TTL of 55 minutes, which is strictly below the 60
\* minutes the service accepts.
C17_ReturnedTokenYoungerThanTtl ==
    /\ 60 * 55 < 60 * 60
    /\ \A p \in SignTasks :
          sign_ret[p].set =>
             /\ sign_ret[p].key.iss = "TEAM"
             /\ sign_ret[p].at - sign_ret[p].key.iat >= 0
             /\ sign_ret[p].at - sign_ret[p].key.iat < 60 * 55
             /\ sign_ret[p].at - sign_ret[p].key.iat < 60 * 60

\* A cached token one second short of the TTL was returned.
C17_Witness ==
    \E p \in SignTasks :
        /\ sign_ret[p].set
        /\ ~sign_ret[p].renewed
        /\ sign_ret[p].at - sign_ret[p].key.iat = 60 * 55 - 1

\* C18: send returns Ok only for status 200, with code 200 and no error; an
\* answer with any other status, 204 included, whose body send has read is
\* returned as a ResponseError with that status as its code, and no
\* ResponseError has code 200.
C18_OnlyStatus200IsSuccess ==
    \A q \in SendTasks :
        /\ outcome[q].kind = "Ok" =>
              /\ resp[q].status = 200
              /\ outcome[q].response.code = 200
              /\ ~outcome[q].response.error.some
        /\ (send_pc[q] = "returned" /\ resp[q].status \notin {0, 200}) =>
              outcome[q].kind # "Ok"
        /\ (send_pc[q] = "returned" /\ resp[q].status \notin {0, 200} /\ resp[q].body_read) =>
              /\ outcome[q].kind = "ResponseError"
              /\ outcome[q].response.code = resp[q].status
        /\ outcome[q].kind = "ResponseError" => outcome[q].response.code # 200

\* A 204 answer came back as a ResponseError with code 204 while a 200
\* answer came back Ok.
C18_Witness ==
    \E q, r \in SendTasks :
        /\ send_pc[q] = "returned" /\ resp[q].status = 204
        /\ outcome[q].kind = "ResponseError" /\ outcome[q].response.code = 204
        /\ send_pc[r] = "returned" /\ resp[r].status = 200
        /\ outcome[r].kind = "Ok" /\ outcome[r].response.code = 200

====
